---- MODULE Spec2Model ----
(***************************************************************************)
(* State-machine model of the hospitalist patient tracker (Django app      *)
(* "patients"): the patient lifecycle, attending reassignment through the  *)
(* admin (bulk action and change form), the attending-change audit trail   *)
(* written by the pre_save/post_save receivers of patients/audit.py, and   *)
(* the deduplicated, quiet-hours-aware assignment notifications.           *)
(*                                                                         *)
(* Time is counted in whole hours since local midnight of day 0.  The      *)
(* database is PostgreSQL under READ COMMITTED (Django's default): a       *)
(* request's reads see the last committed rows, and the statements a       *)
(* request issues after its UPDATE of a patient row (which takes the row   *)
(* lock until commit) are serialised against every other writer of that    *)
(* row, so they are modelled as one step.                                  *)
(***************************************************************************)
EXTENDS Integers, Sequences, FiniteSets, TLC

(***************************************************************************)
(* Bounds of the model                                                     *)
(***************************************************************************)
\* rows the audit table may hold
MaxAudit == 3
\* notification ids that may be handed out
MaxNotif == 3
\* child records (signout / todo / overnight event) per patient
MaxChildren == 1
MaxWatch == 2

\* the instants (hours) at which requests arrive: 15:00, 16:00 and 17:00 of
\* day 0, 07:00 and 16:00 of day 1
Clock == {15, 16, 17, 31, 40}
StartClock == {15}

Patients == {"p1", "p2"}
\* the placeholder account created by migration 0008
TBA == "to_be_assigned"
RealUsers == {"u1", "u2"}
Users == RealUsers \cup {TBA}
\* staff accounts that act in the admin
Actors == RealUsers
\* accounts holding the patients.delete_patient permission
DeletePerm == {"u1"}

\* NULL of a user foreign key / of a posted field, NULL of a timestamp
NoUser == "none"
\* a posted user id that matches no row of the user table
GhostUser == "ghost"
NoTime == -1
\* NULL of a patient foreign key
NoPatient == "nopatient"

(***************************************************************************)
(* Program constants                                                       *)
(***************************************************************************)
QUIET_START_HOUR == 16
QUIET_END_HOUR == 7
HoursPerDay == 24
\* settings default read by the sweep and by discharge_now
PATIENT_DISCHARGE_GRACE_DAYS == 7
\* an instant one grace period after the first quiet hour of Clock
SweepClock == QUIET_START_HOUR + PATIENT_DISCHARGE_GRACE_DAYS * HoursPerDay

ACTIVE == "ACTIVE"
DISCHARGED == "DISCHARGED"
ARCHIVED == "ARCHIVED"
PatientStatus == {ACTIVE, DISCHARGED, ARCHIVED}

ATTENDING_CHANGED == "ATTENDING_CHANGED"
KindGeneric == "generic"
KindAssignment == "assignment"
LevelInfo == "info"

(***************************************************************************)
(* State                                                                   *)
(***************************************************************************)
VARIABLES
    now,        \* the server clock (hours)
    patient,    \* Patient table: primary key -> row
    audit,      \* AuditLog table, in insertion (id) order
    notifs,     \* Notification table
    nextNid,    \* next Notification id
    children,   \* number of Signout/Todo/OvernightEvent rows per patient
    req,        \* each actor's in-flight change-form request (save_model)
    resp,       \* what the request served by the last step reported
    users,      \* the auth user table (usernames)
    watches,    \* PatientWatch table
    quiet,      \* the quiet-hours settings admin.py read at import
    wreq,       \* watchlist requests in flight, per session
    sweep       \* the auto-archive command between its two queries

vars == <<now, patient, audit, notifs, nextNid, children, req, resp,
          users, watches, quiet, wreq, sweep>>

(***************************************************************************)
(* Quiet hours                                                             *)
(***************************************************************************)
LocalHour(t) == t % HoursPerDay
LocalDate(t) == t \div HoursPerDay

\* the window test with its end bound included
_is_quiet_hours_closed(t) ==
    LET h == LocalHour(t)
        start == quiet.start
        end == quiet.end
    IN  IF start = end THEN FALSE
        ELSE IF start < end THEN start <= h /\ h <= end
        ELSE h >= start \/ h <= end

\* admin._is_quiet_hours; QUIET_START_HOUR and QUIET_END_HOUR hold the
\* settings NOTIFY_QUIET_START_HOUR and NOTIFY_QUIET_END_HOUR (defaults 16, 7)
_is_quiet_hours(t) ==
    LET h == LocalHour(t)
        start == quiet.start
        end == quiet.end
    IN  IF start = end THEN FALSE
        ELSE IF start < end THEN start <= h /\ h < end
        ELSE h >= start \/ h < end

\* the delivery always put off to the end hour of the following day
_next_visible_time_tomorrow(t) ==
    IF ~_is_quiet_hours(t) THEN t
    ELSE (LocalDate(t) + 1) * HoursPerDay + quiet.end

\* admin._next_visible_time
_next_visible_time(t) ==
    IF ~_is_quiet_hours(t) THEN t
    ELSE LET deliver_date == IF LocalHour(t) < quiet.end
                             THEN LocalDate(t) ELSE LocalDate(t) + 1
         IN  deliver_date * HoursPerDay + quiet.end

(***************************************************************************)
(* Rows                                                                    *)
(***************************************************************************)
\* a patient primary key before its INSERT and after its DELETE
NoRow == [life |-> "unborn", attending |-> TBA, status |-> ACTIVE,
          discharged_at |-> NoTime, archived_at |-> NoTime]
GoneRow == [NoRow EXCEPT !.life = "deleted"]

NewPatient(att) == [life |-> "row", attending |-> att, status |-> ACTIVE,
                    discharged_at |-> NoTime, archived_at |-> NoTime]

AuditRow(p, by, old, new, t) ==
    [event |-> ATTENDING_CHANGED, patient |-> p, changed_by |-> by,
     old_attending |-> old, new_attending |-> new, created_at |-> t]

\* Patient.discharge
discharge(row, when) ==
    [row EXCEPT !.status = DISCHARGED,
                !.discharged_at = IF row.discharged_at = NoTime THEN when ELSE @]

\* Patient.archive
archive(row, when) ==
    [row EXCEPT !.status = ARCHIVED,
                !.archived_at = IF row.archived_at = NoTime THEN when ELSE @]

\* Patient.is_read_only
is_read_only(row) == row.status # ACTIVE


(***************************************************************************)
(* Tables and lookups                                                      *)
(***************************************************************************)
\* a lookup that finds the placeholder whether or not its row exists
UserTable_placeholder_assumed == users \cup {TBA}

\* the auth user table: User.objects
UserTable == users

\* primary keys in the order the sequence hands them out
PatientKeys == <<"p1", "p2">>

Live(pt) == {p \in Patients : pt[p].life = "row"}

Notification(id, recipient, level, p, visible_at, kind, t) ==
    [id |-> id, recipient |-> recipient, level |-> level, kind |-> kind,
     patient |-> p, created_at |-> t, visible_at |-> visible_at,
     read_at |-> NoTime]

\* Notification.push: one INSERT; visible_at defaults to now
push(ns, id, recipient, level, p, visible_at, kind, t) ==
    ns \cup {Notification(id, recipient, level, p,
                          IF visible_at = NoTime THEN t ELSE visible_at, kind, t)}

\* the delete filtered on the computed visible_at instead of now
PendingAssignment_after(ns, p, t) ==
    {n \in ns : n.kind = KindAssignment /\ n.patient = p
                 /\ n.visible_at > _next_visible_time(t)}

\* the rows _notify_assignment deletes: pending assignment notifications of p
PendingAssignment(ns, p, t) ==
    {n \in ns : n.kind = KindAssignment /\ n.patient = p /\ n.visible_at > t}

\* _notify_assignment without the cancellation of pending notifications
_notify_assignment_no_cancel(nt, p, new_attending, t) ==
    [notifs |-> push(nt.notifs, nt.nextNid, new_attending, LevelInfo, p,
                     _next_visible_time(t), KindAssignment, t),
     nextNid |-> nt.nextNid + 1]

\* PatientAdmin._notify_assignment, on the tables nt = [notifs, nextNid]
_notify_assignment(nt, p, new_attending, t) ==
    LET visible_at == _next_visible_time(t)
        kept == nt.notifs \ PendingAssignment(nt.notifs, p, t)
    IN  [notifs |-> push(kept, nt.nextNid, new_attending, LevelInfo, p,
                         visible_at, KindAssignment, t),
         nextNid |-> nt.nextNid + 1]

\* Notification.push when the clock moves between the caller's reading t and
\* the INSERT at t_ins: `visible_at or timezone.now()` is evaluated with the
\* arguments, created_at (auto_now_add) is read when the row is saved
push_clock(ns, id, recipient, level, p, visible_at, kind, t, t_ins) ==
    ns \cup {Notification(id, recipient, level, p,
                          IF visible_at = NoTime THEN t ELSE visible_at,
                          kind, t_ins)}

\* PatientAdmin._notify_assignment reading the clock at t (`now`), the row
\* being inserted at t_ins
_notify_assignment_clock(nt, p, new_attending, t, t_ins) ==
    LET visible_at == _next_visible_time(t)
        kept == nt.notifs \ PendingAssignment(nt.notifs, p, t)
    IN  [notifs |-> push_clock(kept, nt.nextNid, new_attending, LevelInfo, p,
                               visible_at, KindAssignment, t, t_ins),
         nextNid |-> nt.nextNid + 1]

\* audit._audit_patient_attending_pre: the attending_id the row holds now
_audit_patient_attending_pre(pt, p) ==
    IF pt[p].life = "row" THEN pt[p].attending ELSE NoUser

\* the receiver reading the old attending from the instance after assignment
_audit_patient_attending_post_stale(au, p, created, prev_id, new_id, by, t) ==
    IF created THEN au
    ELSE IF prev_id = new_id THEN au
    ELSE Append(au, AuditRow(p, by, new_id, new_id, t))

\* audit._audit_patient_attending_post
_audit_patient_attending_post(au, p, created, prev_id, new_id, by, t) ==
    IF created THEN au
    ELSE IF prev_id = new_id THEN au
    ELSE Append(au, AuditRow(p, by, prev_id, new_id, t))

AuditOf(au, p) == SelectSeq(au, LAMBDA a : a.patient = p)

(***************************************************************************)
(* Requests and responses                                                  *)
(***************************************************************************)
\* the request served by a step and what it reported: the handler, the
\* message level and the count in the message; the requesting user, the
\* selected patients and the target attending of the bulk attending action;
\* the requesting user and the object of the delete view; the reactivated
\* and skipped counts of the watchlist add action
NoMsg == [op |-> "none", level |-> "none", count |-> 0, actor |-> NoUser,
          sel |-> {}, target |-> NoUser, reactivated |-> 0, skipped |-> 0]

Msg(op, level, count) == [NoMsg EXCEPT !.op = op, !.level = level,
                                       !.count = count]

BulkMsg(level, count, by, S, uid) ==
    [op |-> "bulk_set_or_clear_attending", level |-> level, count |-> count,
     actor |-> by, sel |-> S, target |-> uid, reactivated |-> 0,
     skipped |-> 0]

\* the bulk attending action's error or warning message, with the posted id
RejectMsg(level, uid) ==
    [Msg("bulk_set_or_clear_attending", level, 0) EXCEPT !.target = uid]

DeleteMsg(level, p, by) ==
    [op |-> "delete", level |-> level, count |-> 0, actor |-> by,
     sel |-> {p}, target |-> NoUser, reactivated |-> 0, skipped |-> 0]

\* browser sessions that may have a watchlist request in flight
Sessions == {"s1", "s2"}

IdleWatch == [pc |-> "idle", op |-> "none", user |-> NoUser, p |-> "p1"]

\* no run of the auto-archive command in progress
IdleSweep == [pc |-> "idle", count |-> 0, now |-> NoTime]

IdleReq == [pc |-> "idle", p |-> "p1", obj |-> NoRow,
            changed |-> FALSE, prev_attending |-> NoUser,
            sig_prev |-> NoUser]

Init ==
    /\ now \in StartClock
    /\ patient = [p \in Patients |-> NoRow]
    /\ audit = <<>>
    /\ notifs = {}
    /\ nextNid = 1
    /\ children = [p \in Patients |-> 0]
    /\ req = [by \in Actors |-> IdleReq]
    /\ resp = NoMsg
    /\ users = Users
    /\ watches = {}
    /\ quiet = [start |-> QUIET_START_HOUR, end |-> QUIET_END_HOUR]
    /\ wreq = [s \in Sessions |-> IdleWatch]
    /\ sweep = IdleSweep

\* time passes between requests, up to one of the instants C
Tick(C) ==
    /\ \E t \in C : t > now /\ now' = t
    /\ resp' = NoMsg
    /\ UNCHANGED <<patient, audit, notifs, nextNid, children, req, users, watches, quiet, wreq, sweep>>

(***************************************************************************)
(* Bulk action "Set/Clear Attending for selected patients"                 *)
(***************************************************************************)
\* the loop without its test: every selected patient is saved and counted
NeedsChange_always(row, uid) == TRUE

\* receivers that archive the watch of the attending who lost the patient
post_save_watches_unwatch_old(ws, pt, pt2, t) ==
    {IF /\ pt[w.patient].life = "row"
        /\ pt2[w.patient].life = "row"
        /\ pt[w.patient].attending # pt2[w.patient].attending
        /\ w.user = pt[w.patient].attending
     THEN [w EXCEPT !.archived_at = t] ELSE w : w \in ws}

\* what the post_save receivers connected in PatientsConfig.ready do to the
\* PatientWatch table when patient rows go from pt to pt2: only audit.py is
\* imported there, and its receiver writes AuditLog alone
post_save_watches(ws, pt, pt2, t) == ws

\* admin.py `if p.attending_id != user.id`
NeedsChange(row, uid) == row.attending # uid

\* one iteration of the loop over queryset.select_for_update()
BulkStep(db, p, uid, by, clear, t) ==
    IF ~NeedsChange(db.patient[p], uid) THEN db
    ELSE LET prev == _audit_patient_attending_pre(db.patient, p)
             pt == [db.patient EXCEPT ![p].attending = uid]
             au == _audit_patient_attending_post(db.audit, p, FALSE, prev,
                                                 uid, by, t)
             nt == IF ~clear /\ uid # TBA
                   THEN _notify_assignment([notifs |-> db.notifs,
                                            nextNid |-> db.nextNid], p, uid, t)
                   ELSE [notifs |-> db.notifs, nextNid |-> db.nextNid]
         IN  [patient |-> pt, audit |-> au, notifs |-> nt.notifs,
              nextNid |-> nt.nextNid, updated |-> db.updated + 1]

RECURSIVE BulkLoop(_, _, _, _, _, _)
BulkLoop(order, db, uid, by, clear, t) ==
    IF order = <<>> THEN db
    ELSE BulkLoop(Tail(order), BulkStep(db, Head(order), uid, by, clear, t),
                  uid, by, clear, t)

\* the orders in which a queryset may return the rows of S
Orders(S) ==
    {o \in [1..Cardinality(S) -> S] : \A i, j \in DOMAIN o : i # j => o[i] # o[j]}

\* PatientAdmin.bulk_set_or_clear_attending
bulk_set_or_clear_attending(by, S, attending_id, clear) ==
    /\ S # {} /\ S \subseteq Live(patient)
    /\ IF TBA \notin UserTable
       THEN /\ resp' = RejectMsg("error", attending_id)
            /\ UNCHANGED <<patient, audit, notifs, nextNid>>
       ELSE IF clear \/ (attending_id # NoUser /\ attending_id \in UserTable)
       THEN \E order \in Orders(S) :
              \E db \in {BulkLoop(order,
                                  [patient |-> patient, audit |-> audit,
                                   notifs |-> notifs, nextNid |-> nextNid,
                                   updated |-> 0],
                                  IF clear THEN TBA ELSE attending_id,
                                  by, clear, now)} :
                  /\ Len(db.audit) <= MaxAudit
                  /\ db.nextNid <= MaxNotif + 1
                  /\ patient' = db.patient
                  /\ audit' = db.audit
                  /\ notifs' = db.notifs
                  /\ nextNid' = db.nextNid
                  /\ resp' = BulkMsg("success", db.updated, by, S,
                                     IF clear THEN TBA ELSE attending_id)
       ELSE IF attending_id # NoUser
       THEN /\ resp' = RejectMsg("error", attending_id)
            /\ UNCHANGED <<patient, audit, notifs, nextNid>>
       ELSE /\ resp' = RejectMsg("warning", attending_id)
            /\ UNCHANGED <<patient, audit, notifs, nextNid>>
    /\ watches' = post_save_watches(watches, patient, patient', now)
    /\ UNCHANGED <<now, children, req, users, quiet, wreq, sweep>>

\* PatientAdmin.bulk_set_or_clear_attending on the single selected patient p
\* with a real user posted, the request lasting from now to t_ins: the row is
\* saved and audited at now, _notify_assignment reads the clock at now, and
\* the notification is inserted at t_ins
bulk_set_attending_clock(by, p, attending_id, t_ins) ==
    /\ p \in Live(patient)
    /\ TBA \in UserTable
    /\ attending_id \in UserTable \ {TBA}
    /\ t_ins >= now
    /\ IF NeedsChange(patient[p], attending_id)
       THEN \E nt \in {_notify_assignment_clock(
                          [notifs |-> notifs, nextNid |-> nextNid], p,
                          attending_id, now, t_ins)} :
              /\ Len(audit) < MaxAudit
              /\ nt.nextNid <= MaxNotif + 1
              /\ patient' = [patient EXCEPT ![p].attending = attending_id]
              /\ audit' = _audit_patient_attending_post(
                             audit, p, FALSE,
                             _audit_patient_attending_pre(patient, p),
                             attending_id, by, now)
              /\ notifs' = nt.notifs
              /\ nextNid' = nt.nextNid
              /\ resp' = BulkMsg("success", 1, by, {p}, attending_id)
       ELSE /\ resp' = BulkMsg("success", 0, by, {p}, attending_id)
            /\ UNCHANGED <<patient, audit, notifs, nextNid>>
    /\ now' = t_ins
    /\ watches' = post_save_watches(watches, patient, patient', now)
    /\ UNCHANGED <<children, req, users, quiet, wreq, sweep>>

\* the request ends within the hour it began in, or in the next one, at one
\* of the instants C
BulkSetAttendingClock(By, Ps, Targets, C) ==
    \E by \in By, p \in Ps, uid \in Targets, t_ins \in {now, now + 1} \cap C :
        bulk_set_attending_clock(by, p, uid, t_ins)

\* statements run in autocommit: what was written before the exception stays
transaction_autocommit(before, after, committed) == after

\* `with transaction.atomic()`: the block's writes are committed together
\* when it ends, and rolled back when an exception leaves it
transaction_atomic(before, after, committed) ==
    IF committed THEN after ELSE before

\* the tables as an iteration of the loop leaves them when the push of its
\* notification (or, where it sends none, a later statement) raises: the row
\* is saved, the audit row written, the pending notifications deleted
BulkStepRaises(db, p, uid, by, clear, t) ==
    IF ~NeedsChange(db.patient[p], uid) THEN db
    ELSE LET prev == _audit_patient_attending_pre(db.patient, p)
             pt == [db.patient EXCEPT ![p].attending = uid]
             au == _audit_patient_attending_post(db.audit, p, FALSE, prev,
                                                 uid, by, t)
             ns == IF ~clear /\ uid # TBA
                   THEN db.notifs \ PendingAssignment(db.notifs, p, t)
                   ELSE db.notifs
         IN  [patient |-> pt, audit |-> au, notifs |-> ns,
              nextNid |-> db.nextNid, updated |-> db.updated + 1]

\* bulk_set_or_clear_attending when an exception leaves the atomic block in
\* the iteration of the k-th patient; the response counts the rows the block
\* had saved
bulk_set_or_clear_attending_raises(by, S, attending_id, clear) ==
    /\ S # {} /\ S \subseteq Live(patient)
    /\ TBA \in UserTable
    /\ clear \/ (attending_id # NoUser /\ attending_id \in UserTable)
    /\ \E order \in Orders(S), k \in 1..Cardinality(S) :
         LET uid == IF clear THEN TBA ELSE attending_id
             db0 == [patient |-> patient, audit |-> audit, notifs |-> notifs,
                     nextNid |-> nextNid, updated |-> 0]
         IN  \E part \in {BulkStepRaises(
                              BulkLoop(SubSeq(order, 1, k - 1), db0, uid, by,
                                       clear, now),
                              order[k], uid, by, clear, now)} :
                \E db \in {transaction_atomic(db0, part, FALSE)} :
                   /\ Len(part.audit) <= MaxAudit
                   /\ part.nextNid <= MaxNotif + 1
                   /\ patient' = db.patient
                   /\ audit' = db.audit
                   /\ notifs' = db.notifs
                   /\ nextNid' = db.nextNid
                   /\ resp' = Msg("bulk_set_or_clear_attending", "raised",
                                  part.updated)
    /\ UNCHANGED <<now, children, req, users, watches, quiet, wreq, sweep>>

BulkSetOrClearAttendingRaises(By, Targets) ==
    \E by \in By, S \in SUBSET Patients, attending_id \in Targets,
       clear \in BOOLEAN :
        /\ clear => attending_id \in {NoUser, GhostUser}
        /\ bulk_set_or_clear_attending_raises(by, S, attending_id, clear)

\* the action posted by one of the users By with a target among Targets; the
\* clear box is posted alone or with an id, which the action then ignores
BulkSetOrClearAttending(By, Targets) ==
    \E by \in By, S \in SUBSET Patients, attending_id \in Targets,
       clear \in BOOLEAN :
        /\ clear => attending_id \in {NoUser, GhostUser}
        /\ bulk_set_or_clear_attending(by, S, attending_id, clear)

(***************************************************************************)
(* Patient add form and change form (PatientAdmin.save_model)              *)
(***************************************************************************)
\* PatientAdmin.get_readonly_fields: every concrete field of a non-Active
\* patient is read-only, so the change form applies none of the posted values
get_readonly_fields(row) == row.status # ACTIVE

\* the add view: save_model with change = False inserts the row; the
\* post_save receiver returns at `if created`, and no notification is sent
AddPatient(Keys, Atts) ==
    \E att \in Atts \cap UserTable, i \in DOMAIN PatientKeys :
        /\ PatientKeys[i] \in Keys
        /\ patient[PatientKeys[i]].life = "unborn"
        /\ \A j \in 1..(i - 1) : patient[PatientKeys[j]].life # "unborn"
        /\ patient' = [patient EXCEPT ![PatientKeys[i]] = NewPatient(att)]
        /\ audit' = _audit_patient_attending_post(audit, PatientKeys[i], TRUE,
                                                  NoUser, att, NoUser, now)
        /\ resp' = NoMsg
        /\ UNCHANGED <<now, notifs, nextNid, children, req, users, watches, quiet, wreq, sweep>>

\* the change view of actor r loads the object and binds the posted form to
\* it; save_model then stamps obj._changed_by_user = r
SMLoad(r, p, att) ==
    /\ req[r].pc = "idle"
    /\ p \in Live(patient)
    /\ att \in UserTable
    /\ LET row == patient[p]
           obj == IF get_readonly_fields(row) THEN row
                  ELSE [row EXCEPT !.attending = att]
       IN  req' = [req EXCEPT ![r] =
                     [pc |-> "loaded", p |-> p, obj |-> obj,
                      changed |-> (obj.attending # row.attending),
                      prev_attending |-> NoUser, sig_prev |-> NoUser]]
    /\ resp' = NoMsg
    /\ UNCHANGED <<now, patient, audit, notifs, nextNid, children, users, watches, quiet, wreq, sweep>>

\* save_model: `prev = Patient.objects.get(pk=obj.pk)` when the form changed
\* the attending
SMReadPrev(r) ==
    /\ req[r].pc = "loaded"
    /\ req' = [req EXCEPT ![r].pc = "prev_read",
                          ![r].prev_attending =
                              IF req[r].changed /\ req[r].p \in Live(patient)
                              THEN patient[req[r].p].attending ELSE NoUser]
    /\ resp' = NoMsg
    /\ UNCHANGED <<now, patient, audit, notifs, nextNid, children, users, watches, quiet, wreq, sweep>>

\* super().save_model -> obj.save() -> pre_save receiver
SMPreSave(r) ==
    /\ req[r].pc = "prev_read"
    /\ req' = [req EXCEPT ![r].pc = "pre_saved",
                          ![r].sig_prev =
                              _audit_patient_attending_pre(patient, req[r].p)]
    /\ resp' = NoMsg
    /\ UNCHANGED <<now, patient, audit, notifs, nextNid, children, users, watches, quiet, wreq, sweep>>

\* the test without the exemption of the placeholder
ShouldNotify_placeholder_too(changed, prev_attending, new_attending) ==
    /\ changed
    /\ (prev_attending = NoUser \/ prev_attending # new_attending)

\* save_model's test before it notifies
ShouldNotify(changed, prev_attending, new_attending) ==
    /\ changed
    /\ (prev_attending = NoUser \/ prev_attending # new_attending)
    /\ new_attending # TBA

\* obj.save() writes every column (an UPDATE, or an INSERT when the row is
\* gone), the post_save receiver audits, save_model notifies, and the
\* request's transaction commits
SMWrite(r) ==
    /\ req[r].pc = "pre_saved"
    /\ LET q == req[r]
           created == q.p \notin Live(patient)
           nt0 == [notifs |-> notifs, nextNid |-> nextNid]
       IN  \E au \in {_audit_patient_attending_post(
                          audit, q.p, created, q.sig_prev, q.obj.attending,
                          r, now)},
              nt \in {IF ShouldNotify(q.changed, q.prev_attending,
                                      q.obj.attending)
                      THEN _notify_assignment(nt0, q.p, q.obj.attending, now)
                      ELSE nt0} :
           /\ Len(au) <= MaxAudit
           /\ nt.nextNid <= MaxNotif + 1
           /\ patient' = [patient EXCEPT ![q.p] = [q.obj EXCEPT !.life = "row"]]
           /\ audit' = au
           /\ notifs' = nt.notifs
           /\ nextNid' = nt.nextNid
    /\ req' = [req EXCEPT ![r] = IdleReq]
    /\ resp' = NoMsg
    /\ watches' = post_save_watches(watches, patient, patient', now)
    /\ UNCHANGED <<now, children, users, quiet, wreq, sweep>>

\* the change view when save_model raises after obj.save() and the audit
\* receiver, before its notification is stored: the view's transaction
\* (the admin runs the change view inside transaction.atomic) rolls back
SMWriteRaises(r) ==
    /\ req[r].pc = "pre_saved"
    /\ LET q == req[r]
           created == q.p \notin Live(patient)
           db0 == [patient |-> patient, audit |-> audit, notifs |-> notifs,
                   nextNid |-> nextNid, updated |-> 0]
           part == [db0 EXCEPT
                      !.patient = [patient EXCEPT
                                     ![q.p] = [q.obj EXCEPT !.life = "row"]],
                      !.audit = _audit_patient_attending_post(
                                    audit, q.p, created, q.sig_prev,
                                    q.obj.attending, r, now),
                      !.updated = 1]
       IN  \E db \in {transaction_atomic(db0, part, FALSE)} :
              /\ Len(part.audit) <= MaxAudit
              /\ patient' = db.patient
              /\ audit' = db.audit
              /\ notifs' = db.notifs
              /\ nextNid' = db.nextNid
    /\ req' = [req EXCEPT ![r] = IdleReq]
    /\ resp' = Msg("save_model", "raised", 1)
    /\ UNCHANGED <<now, children, users, watches, quiet, wreq, sweep>>

SaveModelWriteRaises == \E r \in Actors : SMWriteRaises(r)

SaveModelLoad(By, Atts) ==
    \E r \in By, p \in Patients, att \in Atts : SMLoad(r, p, att)
SaveModelReadPrev == \E r \in Actors : SMReadPrev(r)
SaveModelPreSave == \E r \in Actors : SMPreSave(r)
SaveModelWrite == \E r \in Actors : SMWrite(r)

(***************************************************************************)
(* Lifecycle                                                               *)
(***************************************************************************)
\* an UPDATE that resets the status and leaves the timestamps
mark_active_row_status_only(row) == [row EXCEPT !.status = ACTIVE]

\* the row mark_active's UPDATE writes
mark_active_row(row) ==
    [row EXCEPT !.status = ACTIVE, !.discharged_at = NoTime,
                !.archived_at = NoTime]

\* PatientAdmin.mark_active: queryset.update, no signals
mark_active(S) ==
    /\ S # {} /\ S \subseteq Live(patient)
    /\ patient' = [p \in Patients |->
                     IF p \in S THEN mark_active_row(patient[p])
                     ELSE patient[p]]
    /\ resp' = [Msg("mark_active", "success", Cardinality(S)) EXCEPT !.sel = S]
    /\ UNCHANGED <<now, audit, notifs, nextNid, children, req, users, watches, quiet, wreq, sweep>>

\* the row discharge_now's UPDATE writes
discharge_now_row(row, t) ==
    [row EXCEPT !.status = DISCHARGED, !.discharged_at = t]

\* PatientAdmin.discharge_now
discharge_now(S) ==
    /\ S # {} /\ S \subseteq Live(patient)
    /\ patient' = [p \in Patients |->
                     IF p \in S THEN discharge_now_row(patient[p], now)
                     ELSE patient[p]]
    /\ resp' = Msg("discharge_now", "success", Cardinality(S))
    /\ UNCHANGED <<now, audit, notifs, nextNid, children, req, users, watches, quiet, wreq, sweep>>

\* the row archive_now's UPDATE writes
archive_now_row(row, t) ==
    [row EXCEPT !.status = ARCHIVED, !.archived_at = t]

\* PatientAdmin.archive_now
archive_now(S) ==
    /\ S # {} /\ S \subseteq Live(patient)
    /\ patient' = [p \in Patients |->
                     IF p \in S THEN archive_now_row(patient[p], now)
                     ELSE patient[p]]
    /\ resp' = Msg("archive_now", "success", Cardinality(S))
    /\ UNCHANGED <<now, audit, notifs, nextNid, children, req, users, watches, quiet, wreq, sweep>>

MarkActive == \E S \in SUBSET Patients : mark_active(S)
DischargeNow == \E S \in SUBSET Patients : discharge_now(S)
ArchiveNow == \E S \in SUBSET Patients : archive_now(S)

\* a caller loads the patient, applies a model helper (Patient.discharge or
\* Patient.archive with when = None) and saves; the receivers run on the save
HelperSave(p, row) ==
    /\ patient' = [patient EXCEPT ![p] = row]
    /\ audit' = _audit_patient_attending_post(
                    audit, p, FALSE, _audit_patient_attending_pre(patient, p),
                    row.attending, NoUser, now)
    /\ resp' = NoMsg
    /\ UNCHANGED <<now, notifs, nextNid, children, req, users, watches, quiet, wreq, sweep>>

PatientDischarge ==
    \E p \in Live(patient) : HelperSave(p, discharge(patient[p], now))
PatientArchive ==
    \E p \in Live(patient) : HelperSave(p, archive(patient[p], now))

\* the filter with a strict comparison against the cutoff
SweepDue_strict(pt, t) ==
    {p \in Live(pt) :
        /\ pt[p].status = DISCHARGED
        /\ pt[p].discharged_at # NoTime
        /\ pt[p].discharged_at < t - PATIENT_DISCHARGE_GRACE_DAYS * HoursPerDay}

\* the rows the sweep selects: Discharged for at least the grace period
SweepDue(pt, t) ==
    {p \in Live(pt) :
        /\ pt[p].status = DISCHARGED
        /\ pt[p].discharged_at # NoTime
        /\ pt[p].discharged_at <= t - PATIENT_DISCHARGE_GRACE_DAYS * HoursPerDay}

\* an UPDATE that stamps both lifecycle timestamps
auto_archive_row_restamp(row, t) ==
    [row EXCEPT !.status = ARCHIVED, !.archived_at = t, !.discharged_at = t]

\* the row the sweep's UPDATE writes
auto_archive_row(row, t) ==
    [row EXCEPT !.status = ARCHIVED, !.archived_at = t]

\* management command auto_archive_patients: Command.handle
auto_archive_patients ==
    LET due == SweepDue(patient, now)
    IN  /\ patient' = [p \in Patients |->
                         IF p \in due THEN auto_archive_row(patient[p], now)
                         ELSE patient[p]]
        /\ resp' = Msg("auto_archive_patients", "success", Cardinality(due))
        /\ UNCHANGED <<now, audit, notifs, nextNid, children, req, users, watches, quiet, wreq, sweep>>

\* Command.handle up to `count = qs.count()`: the clock is read, the rows due
\* are counted, and a count of zero ends the run with its message
SweepCount ==
    /\ sweep.pc = "idle"
    /\ IF SweepDue(patient, now) = {}
       THEN /\ resp' = Msg("auto_archive_patients", "success", 0)
            /\ UNCHANGED sweep
       ELSE /\ resp' = NoMsg
            /\ sweep' = [pc |-> "counted",
                         count |-> Cardinality(SweepDue(patient, now)),
                         now |-> now]
    /\ UNCHANGED <<now, patient, audit, notifs, nextNid, children, req, users,
                   watches, quiet, wreq>>

\* Command.handle from `qs.update(...)`: the UPDATE evaluates the filter
\* again, with the cutoff of the clock reading taken at the start, and the
\* message reports the count taken before
SweepUpdate ==
    /\ sweep.pc = "counted"
    /\ patient' = [p \in Patients |->
                     IF p \in SweepDue(patient, sweep.now)
                     THEN auto_archive_row(patient[p], sweep.now)
                     ELSE patient[p]]
    /\ resp' = Msg("auto_archive_patients", "success", sweep.count)
    /\ sweep' = IdleSweep
    /\ UNCHANGED <<now, audit, notifs, nextNid, children, req, users, watches,
                   quiet, wreq>>

(***************************************************************************)
(* Deletion and child records                                              *)
(***************************************************************************)
\* has_delete_permission without the status test
has_delete_permission_any_status(by, row) == by \in DeletePerm

\* PatientAdmin.has_delete_permission
has_delete_permission(by, row) ==
    IF row.status # ACTIVE THEN FALSE ELSE by \in DeletePerm

\* the admin delete view; the foreign keys of models.py decide what goes with
\* the row: AuditLog, PatientWatch and the child records CASCADE,
\* Notification.patient is SET_NULL
DeletePatient(By) ==
    \E by \in By, p \in Live(patient) :
        IF has_delete_permission(by, patient[p])
        THEN /\ patient' = [patient EXCEPT ![p] = GoneRow]
             /\ audit' = SelectSeq(audit, LAMBDA a : a.patient # p)
             /\ notifs' = {IF n.patient = p THEN [n EXCEPT !.patient = NoPatient]
                           ELSE n : n \in notifs}
             /\ children' = [children EXCEPT ![p] = 0]
             /\ watches' = {w \in watches : w.patient # p}
             /\ resp' = DeleteMsg("success", p, by)
             /\ UNCHANGED <<now, nextNid, req, users, quiet, wreq, sweep>>
        ELSE /\ resp' = DeleteMsg("denied", p, by)
             /\ UNCHANGED <<now, patient, audit, notifs, nextNid, children, req, users, watches, quiet, wreq, sweep>>

\* PatientAdmin.get_inline_instances: no inline formsets for a non-Active patient
get_inline_instances(row) == row.status = ACTIVE

\* a Signout/Todo/OvernightEvent row added through the patient's inline formset
AddChildInline ==
    \E p \in Live(patient) :
        /\ get_inline_instances(patient[p])
        /\ children[p] < MaxChildren
        /\ children' = [children EXCEPT ![p] = @ + 1]
        /\ resp' = NoMsg
        /\ UNCHANGED <<now, patient, audit, notifs, nextNid, req, users, watches, quiet, wreq, sweep>>

\* the same row added through SignoutAdmin / TodoAdmin / OvernightEventAdmin
AddChildAdmin ==
    \E p \in Live(patient) :
        /\ children[p] < MaxChildren
        /\ children' = [children EXCEPT ![p] = @ + 1]
        /\ resp' = NoMsg
        /\ UNCHANGED <<now, patient, audit, notifs, nextNid, req, users, watches, quiet, wreq, sweep>>

\* a user row deleted (auth admin); the foreign keys of models.py decide what
\* goes with it: Patient.attending is PROTECT, Notification.recipient and
\* PatientWatch.user CASCADE, the user columns of AuditLog are SET_NULL
DeleteUser(Us) ==
    \E u \in Us \cap users :
        /\ \A p \in Live(patient) : patient[p].attending # u
        /\ users' = users \ {u}
        /\ notifs' = {n \in notifs : n.recipient # u}
        /\ watches' = {w \in watches : w.user # u}
        /\ audit' = [i \in DOMAIN audit |->
                       [audit[i] EXCEPT
                          !.changed_by = IF @ = u THEN NoUser ELSE @,
                          !.old_attending = IF @ = u THEN NoUser ELSE @,
                          !.new_attending = IF @ = u THEN NoUser ELSE @]]
        /\ resp' = NoMsg
        /\ UNCHANGED <<now, patient, nextNid, children, req, quiet, wreq, sweep>>

(***************************************************************************)
(* Watchlist                                                               *)
(***************************************************************************)
\* a PatientWatch row
PatientWatch(id, u, p, archived_at) ==
    [id |-> id, user |-> u, patient |-> p, archived_at |-> archived_at]

\* the primary key given to a new row
NextWatchId(ws) ==
    IF ws = {} THEN 1
    ELSE (CHOOSE i \in {w.id : w \in ws} : \A w \in ws : w.id <= i) + 1

\* PatientWatch.objects.filter(user=u, patient=p)
WatchesOf(ws, u, p) == {w \in ws : w.user = u /\ w.patient = p}

\* a table on which the constraint is not declared
uniq_active_watch_per_user_patient_undeclared(ws) == TRUE

\* UniqueConstraint(fields=[user, patient], condition=Q(archived_at__isnull=
\* True)): the tables the database accepts
uniq_active_watch_per_user_patient(ws) ==
    \A w1, w2 \in ws :
        (/\ w1.archived_at = NoTime
         /\ w2.archived_at = NoTime
         /\ w1.user = w2.user
         /\ w1.patient = w2.patient) => w1.id = w2.id

\* the answer of a watchlist request: the requesting user and the patient
WatchMsg(op, level, by, p) ==
    [Msg(op, level, 1) EXCEPT !.actor = by, !.sel = {p}]

\* the two exists() queries of toggle_watch and of the add actions, and the
\* branch they select
WatchBranch(ws, op, by, p) ==
    LET qs == WatchesOf(ws, by, p)
    IN  IF \E w \in qs : w.archived_at = NoTime
        THEN IF op = "toggle_watch" THEN "archive" ELSE "skip"
        ELSE IF \E w \in qs : w.archived_at # NoTime
             THEN "reactivate"
             ELSE "create"

\* the write of the selected branch: qs.update(archived_at=now),
\* qs.update(archived_at=None) or PatientWatch.objects.create
WatchApply(ws, branch, by, p, t) ==
    LET qs == WatchesOf(ws, by, p)
    IN  CASE branch = "archive" ->
                {IF w \in qs THEN [w EXCEPT !.archived_at = t] ELSE w : w \in ws}
          [] branch = "reactivate" ->
                {IF w \in qs THEN [w EXCEPT !.archived_at = NoTime] ELSE w :
                   w \in ws}
          [] branch = "create" ->
                ws \cup {PatientWatch(NextWatchId(ws), by, p, NoTime)}
          [] OTHER -> ws

\* the write sent to the database: refused with IntegrityError when the
\* table it would leave breaks the constraint or names a deleted patient
WatchWriteStep(op, branch, by, p) ==
    LET after == WatchApply(watches, branch, by, p, now)
    IN  /\ branch = "create" => Cardinality(watches) < MaxWatch
        /\ IF /\ uniq_active_watch_per_user_patient(after)
              /\ branch = "create" => p \in Live(patient)
           THEN /\ watches' = after
                /\ resp' = WatchMsg(op, "success", by, p)
           ELSE /\ watches' = watches
                /\ resp' = WatchMsg(op, "raised", by, p)

\* PatientAdmin.toggle_watch served without interruption: archive the pair's
\* rows when one is active, reactivate them when one is archived, else
\* create the row
toggle_watch(by, p) ==
    /\ IF p \notin Live(patient)
       THEN /\ resp' = Msg("toggle_watch", "none", 0)
            /\ UNCHANGED watches
       ELSE WatchWriteStep("toggle_watch",
                           WatchBranch(watches, "toggle_watch", by, p), by, p)
    /\ UNCHANGED <<now, patient, audit, notifs, nextNid, children, req,
                   users, quiet, wreq, sweep>>

ToggleWatch(By) == \E by \in By, p \in Patients : toggle_watch(by, p)

\* the requests that add a watch
WatchOps == {"toggle_watch", "add_to_my_watchlist"}

\* toggle_watch or add_to_my_watchlist on one patient, up to its reads
WatchLoad(By, Ps) ==
    \E s \in Sessions, by \in By, p \in Ps \cap Live(patient), op \in WatchOps :
        /\ wreq[s].pc = "idle"
        /\ wreq' = [wreq EXCEPT ![s] =
                      [pc |-> WatchBranch(watches, op, by, p), op |-> op,
                       user |-> by, p |-> p]]
        /\ resp' = NoMsg
        /\ UNCHANGED <<now, patient, audit, notifs, nextNid, children, req,
                       users, watches, quiet, sweep>>

\* the same request from its write to its answer
WatchWrite ==
    \E s \in Sessions :
        /\ wreq[s].pc # "idle"
        /\ WatchWriteStep(wreq[s].op, wreq[s].pc, wreq[s].user, wreq[s].p)
        /\ wreq' = [wreq EXCEPT ![s] = IdleWatch]
        /\ UNCHANGED <<now, patient, audit, notifs, nextNid, children, req,
                       users, quiet, sweep>>

\* an iteration that reports a reactivation as a creation
AddStep_miscount(acc, by, p, t) ==
    LET branch == WatchBranch(acc.watches, "add_to_my_watchlist", by, p)
        after == WatchApply(acc.watches, branch, by, p, t)
    IN  IF acc.raised THEN acc
        ELSE IF ~uniq_active_watch_per_user_patient(after)
        THEN [acc EXCEPT !.raised = TRUE]
        ELSE [watches |-> after,
              created |-> acc.created
                            + (IF branch \in {"create", "reactivate"} THEN 1 ELSE 0),
              reactivated |-> acc.reactivated,
              skipped |-> acc.skipped + (IF branch = "skip" THEN 1 ELSE 0),
              raised |-> FALSE]

\* one iteration of add_to_my_watchlist's loop over the queryset: skip,
\* reactivate or create, each statement committed on its own; an
\* IntegrityError ends the request
AddStep(acc, by, p, t) ==
    LET branch == WatchBranch(acc.watches, "add_to_my_watchlist", by, p)
        after == WatchApply(acc.watches, branch, by, p, t)
    IN  IF acc.raised THEN acc
        ELSE IF ~uniq_active_watch_per_user_patient(after)
        THEN [acc EXCEPT !.raised = TRUE]
        ELSE [watches |-> after,
              created |-> acc.created + (IF branch = "create" THEN 1 ELSE 0),
              reactivated |-> acc.reactivated
                                + (IF branch = "reactivate" THEN 1 ELSE 0),
              skipped |-> acc.skipped + (IF branch = "skip" THEN 1 ELSE 0),
              raised |-> FALSE]

RECURSIVE AddLoop(_, _, _, _)
AddLoop(order, acc, by, t) ==
    IF order = <<>> THEN acc
    ELSE AddLoop(Tail(order), AddStep(acc, by, Head(order), t), by, t)

\* add_to_my_watchlist on the selected patients S
add_to_my_watchlist(by, S) ==
    /\ S # {} /\ S \subseteq Live(patient)
    /\ \E order \in Orders(S) :
          \E acc \in {AddLoop(order, [watches |-> watches, created |-> 0,
                                      reactivated |-> 0, skipped |-> 0,
                                      raised |-> FALSE], by, now)} :
              /\ Cardinality(acc.watches) <= MaxWatch
              /\ watches' = acc.watches
              /\ resp' = [Msg("add_to_my_watchlist",
                              IF acc.raised THEN "raised" ELSE "success",
                              acc.created)
                            EXCEPT !.actor = by, !.sel = S,
                                   !.reactivated = acc.reactivated,
                                   !.skipped = acc.skipped]
    /\ UNCHANGED <<now, patient, audit, notifs, nextNid, children, req,
                   users, quiet, wreq, sweep>>

AddToMyWatchlist(By, Ps) ==
    \E by \in By, S \in SUBSET Ps : add_to_my_watchlist(by, S)

\* signals._is_placeholder
_is_placeholder(user) == user # NoUser /\ user = TBA

\* the branch taken without the placeholder test
EnsureBranch_placeholder_too(ws, user, p) ==
    IF user = NoUser THEN "none"
    ELSE WatchBranch(ws, "_ensure_active_watch", user, p)

\* signals._ensure_active_watch: the branch it takes for user (None is
\* NoUser) and patient
EnsureBranch(ws, user, p) ==
    IF user = NoUser \/ _is_placeholder(user) THEN "none"
    ELSE WatchBranch(ws, "_ensure_active_watch", user, p)

\* signals._ensure_active_watch called with a user and a patient
_ensure_active_watch(user, p) ==
    /\ p \in Live(patient)
    /\ LET branch == EnsureBranch(watches, user, p)
           after == WatchApply(watches, branch, user, p, now)
       IN  /\ branch = "create" => Cardinality(watches) < MaxWatch
           /\ IF uniq_active_watch_per_user_patient(after)
              THEN /\ watches' = after
                   /\ resp' = WatchMsg("_ensure_active_watch", branch, user, p)
              ELSE /\ watches' = watches
                   /\ resp' = WatchMsg("_ensure_active_watch", "raised",
                                       user, p)
    /\ UNCHANGED <<now, patient, audit, notifs, nextNid, children, req,
                   users, quiet, wreq, sweep>>

EnsureActiveWatch(Us, Ps) ==
    \E user \in Us, p \in Ps : _ensure_active_watch(user, p)

\* remove_from_my_watchlist: one UPDATE of the user's active rows on the
\* selected patients
remove_from_my_watchlist(by, S) ==
    /\ watches' = {IF w.user = by /\ w.patient \in S /\ w.archived_at = NoTime
                   THEN [w EXCEPT !.archived_at = now] ELSE w : w \in watches}
    /\ resp' = [Msg("remove_from_my_watchlist", "success",
                    Cardinality({w \in watches : /\ w.user = by
                                                 /\ w.patient \in S
                                                 /\ w.archived_at = NoTime}))
                  EXCEPT !.actor = by, !.sel = S]
    /\ UNCHANGED <<now, patient, audit, notifs, nextNid, children, req,
                   users, quiet, wreq, sweep>>

RemoveFromMyWatchlist(By, Ps) ==
    \E by \in By, S \in SUBSET (Ps \cap Live(patient)) :
        S # {} /\ remove_from_my_watchlist(by, S)

(***************************************************************************)
(* Notification views                                                      *)
(***************************************************************************)
\* the answer of a notification view: the requesting user, and the posted
\* notification id or the count returned
ViewMsg(op, level, by, n) == [Msg(op, level, n) EXCEPT !.actor = by]

\* the answer of a view that lists notifications: the ids listed
ListMsg(op, level, by, n, ids) ==
    [Msg(op, level, n) EXCEPT !.actor = by, !.sel = ids]

\* NotificationAdmin's add form: a generic notification to any user, with
\* the visible_at the form posts
AddNotification(Recipients, Visible) ==
    \E u \in Recipients \cap UserTable, v \in Visible \cup {now} :
        /\ nextNid <= MaxNotif
        /\ v >= now
        /\ notifs' = push(notifs, nextNid, u, LevelInfo, NoPatient, v,
                          KindGeneric, now)
        /\ nextNid' = nextNid + 1
        /\ resp' = NoMsg
        /\ UNCHANGED <<now, patient, audit, children, req, users, watches,
                       quiet, wreq, sweep>>

\* the lookup matching the id alone
get_object_or_404_any_recipient(ns, pk, by) == {n \in ns : n.id = pk}

\* get_object_or_404(Notification, pk=pk, recipient=request.user): the rows
\* found, none meaning Http404
get_object_or_404(ns, pk, by) ==
    {n \in ns : n.id = pk /\ n.recipient = by}

\* read_at stamped whether or not the notification was read already
mark_read_restamp(n, t) == [n EXCEPT !.read_at = t]

\* notification_mark_read on the row found: Notification.mark_read unless
\* read_at is set
mark_read(n, t) ==
    IF n.read_at = NoTime THEN [n EXCEPT !.read_at = t] ELSE n

\* notification_mark_unread on the row found: Notification.mark_unread when
\* read_at is set
mark_unread(n, t) ==
    IF n.read_at # NoTime THEN [n EXCEPT !.read_at = NoTime] ELSE n

\* notification_mark_read: the row looked up, stamped and saved
notification_mark_read(by, pk) ==
    LET found == get_object_or_404(notifs, pk, by)
    IN  /\ IF found = {}
           THEN /\ resp' = ViewMsg("notification_mark_read", "not_found",
                                   by, pk)
                /\ UNCHANGED notifs
           ELSE /\ notifs' = {IF n \in found THEN mark_read(n, now) ELSE n :
                                 n \in notifs}
                /\ resp' = ViewMsg("notification_mark_read", "ok", by, pk)
        /\ UNCHANGED <<now, patient, audit, nextNid, children, req, users,
                       watches, quiet, wreq, sweep>>

\* notification_mark_unread: the row looked up, cleared and saved
notification_mark_unread(by, pk) ==
    LET found == get_object_or_404(notifs, pk, by)
    IN  /\ IF found = {}
           THEN /\ resp' = ViewMsg("notification_mark_unread", "not_found",
                                   by, pk)
                /\ UNCHANGED notifs
           ELSE /\ notifs' = {IF n \in found THEN mark_unread(n, now) ELSE n :
                                 n \in notifs}
                /\ resp' = ViewMsg("notification_mark_unread", "ok", by, pk)
        /\ UNCHANGED <<now, patient, audit, nextNid, children, req, users,
                       watches, quiet, wreq, sweep>>

\* notification_ack: the row is looked up, then n.acknowledged_at is read;
\* Notification declares no such field, so the read raises AttributeError
\* before anything is written
notification_ack(by, pk) ==
    LET found == get_object_or_404(notifs, pk, by)
    IN  /\ resp' = ViewMsg("notification_ack",
                           IF found = {} THEN "not_found" ELSE "raised",
                           by, pk)
        /\ UNCHANGED <<now, patient, audit, notifs, nextNid, children, req,
                       users, watches, quiet, wreq, sweep>>

\* every unread notification of the user, visible or not
VisibleUnread_pending_too(ns, by, t) ==
    {n \in ns : n.recipient = by /\ n.read_at = NoTime}

\* filter(recipient=user, visible_at__lte=now, read_at__isnull=True)
VisibleUnread(ns, by, t) ==
    {n \in ns : n.recipient = by /\ n.visible_at <= t /\ n.read_at = NoTime}

\* filter(recipient=user, visible_at__lte=now)
VisibleTo(ns, by, t) == {n \in ns : n.recipient = by /\ n.visible_at <= t}

\* notifications_mark_all_read: one UPDATE of the user's visible unread rows
notifications_mark_all_read(by) ==
    /\ notifs' = {IF n \in VisibleUnread(notifs, by, now)
                  THEN [n EXCEPT !.read_at = now] ELSE n : n \in notifs}
    /\ resp' = ViewMsg("notifications_mark_all_read", "ok", by, 0)
    /\ UNCHANGED <<now, patient, audit, nextNid, children, req, users,
                   watches, quiet, wreq, sweep>>

\* notification_status: the unread count of the user's visible notifications
notification_status(by) ==
    /\ resp' = ViewMsg("notification_status", "ok", by,
                       Cardinality(VisibleUnread(notifs, by, now)))
    /\ UNCHANGED <<now, patient, audit, notifs, nextNid, children, req,
                   users, watches, quiet, wreq, sweep>>

\* notifications_list with show=all or show=unread: the ids on the page
notifications_list(by, show) ==
    LET qs == IF show = "unread" THEN VisibleUnread(notifs, by, now)
              ELSE VisibleTo(notifs, by, now)
    IN  /\ resp' = ListMsg("notifications_list", "ok", by, Cardinality(qs),
                           {n.id : n \in qs})
        /\ UNCHANGED <<now, patient, audit, notifs, nextNid, children, req,
                       users, watches, quiet, wreq, sweep>>

\* context_processors.notifications_badge for an authenticated user: the
\* unread count is computed, then the filter on acknowledged_at, a field
\* Notification does not declare, raises FieldError
notifications_badge(by) ==
    /\ resp' = ViewMsg("notifications_badge", "raised", by, 0)
    /\ UNCHANGED <<now, patient, audit, notifs, nextNid, children, req,
                   users, watches, quiet, wreq, sweep>>

\* notifications_feed: qs[:20]
FEED_PAGE_SIZE == 20

\* notifications_feed: its first filter names acknowledged_at and raises
\* FieldError, whatever since_id is
notifications_feed(by, since_id) ==
    /\ since_id \in Nat
    /\ resp' = ViewMsg("notifications_feed", "raised", by, 0)
    /\ UNCHANGED <<now, patient, audit, notifs, nextNid, children, req,
                   users, watches, quiet, wreq, sweep>>

\* the ids a request may post: those of rows and one past them
NotificationIds == 1 .. (MaxNotif + 1)

NotificationMarkRead(By) ==
    \E by \in By, pk \in NotificationIds : notification_mark_read(by, pk)
NotificationMarkUnread(By) ==
    \E by \in By, pk \in NotificationIds : notification_mark_unread(by, pk)
NotificationAck(By) ==
    \E by \in By, pk \in NotificationIds : notification_ack(by, pk)
NotificationsMarkAllRead(By) ==
    \E by \in By : notifications_mark_all_read(by)
NotificationStatus(By) == \E by \in By : notification_status(by)
NotificationsList(By) ==
    \E by \in By, show \in {"all", "unread"} : notifications_list(by, show)
NotificationsBadge(By) == \E by \in By : notifications_badge(by)
NotificationsFeed(By) ==
    \E by \in By, since_id \in 0 .. MaxNotif : notifications_feed(by, since_id)

(***************************************************************************)
(* Specifications                                                          *)
(***************************************************************************)
Idle == \A r \in Actors : req[r].pc = "idle"

Posted == Users \cup {NoUser, GhostUser}

\* The bulk attending action on a census of two patients, in and out of
\* quiet hours.
NextBulk ==
    \/ Tick({16})
    \/ AddPatient(Patients, {TBA})
    \/ BulkSetOrClearAttending(Actors, Posted)

SpecBulk == Init /\ [][NextBulk]_vars

\* One patient reassigned by requests served one at a time (bulk action and
\* change form), across two quiet-hours windows.
NextWindow ==
    \/ Idle /\ Tick(Clock)
    \/ Idle /\ AddPatient({"p1"}, Users)
    \/ Idle /\ BulkSetOrClearAttending({"u1"}, Users \cup {NoUser})
    \/ Idle /\ SaveModelLoad({"u1"}, Users)
    \/ SaveModelReadPrev
    \/ SaveModelPreSave
    \/ SaveModelWrite

SpecWindow == Init /\ [][NextWindow]_vars

\* Reassignment requests of two actors overlap: the steps of u1's change-form
\* request interleave with the bulk action of u2.
NextConcurrent ==
    \/ Tick({16, 31})
    \/ AddPatient({"p1"}, {TBA})
    \/ BulkSetOrClearAttending({"u2"}, RealUsers \cup {NoUser})
    \/ SaveModelLoad({"u1"}, RealUsers)
    \/ SaveModelReadPrev
    \/ SaveModelPreSave
    \/ SaveModelWrite

SpecConcurrent == Init /\ [][NextConcurrent]_vars

\* The admin of one patient, requests served one at a time: lifecycle
\* actions, model helpers, deletion, child records and bulk reassignment.
Next ==
    \/ Tick({16, SweepClock})
    \/ AddPatient({"p1"}, {TBA})
    \/ BulkSetOrClearAttending({"u1"}, {"u1", NoUser})
    \/ MarkActive
    \/ DischargeNow
    \/ ArchiveNow
    \/ PatientDischarge
    \/ PatientArchive
    \/ auto_archive_patients
    \/ DeletePatient(Actors)
    \/ AddChildInline
    \/ AddChildAdmin

Spec == Init /\ [][Next]_vars

\* the instants of the lifecycle census: 15:00 and 16:00 of day 0, 16:00 of
\* day 1, and 16:00 of day 7, one grace period after 16:00 of day 0
LifeClock == {QUIET_START_HOUR, QUIET_START_HOUR + HoursPerDay, SweepClock}

\* The lifecycle of two patients: admin lifecycle actions, model helpers and
\* the auto-archive sweep, over more than one grace period.
NextLifecycle ==
    \/ Tick(LifeClock)
    \/ AddPatient(Patients, {TBA})
    \/ MarkActive
    \/ DischargeNow
    \/ ArchiveNow
    \/ PatientDischarge
    \/ PatientArchive
    \/ auto_archive_patients

SpecLifecycle == Init /\ [][NextLifecycle]_vars

\* The admin lifecycle actions on two patients between the two queries of a
\* run of the auto-archive command.
NextSweepRace ==
    \/ Tick(LifeClock)
    \/ AddPatient(Patients, {TBA})
    \/ MarkActive
    \/ DischargeNow
    \/ ArchiveNow
    \/ SweepCount
    \/ SweepUpdate

SpecSweepRace == Init /\ [][NextSweepRace]_vars

\* Reassignment requests, served one at a time, that complete or are cut short
\* by an exception.
NextAtomic ==
    \/ Idle /\ Tick({QUIET_START_HOUR})
    \/ Idle /\ AddPatient(Patients, {TBA})
    \/ Idle /\ BulkSetOrClearAttending({"u1"}, RealUsers \cup {NoUser})
    \/ Idle /\ BulkSetOrClearAttendingRaises({"u1"}, RealUsers \cup {NoUser})
    \/ Idle /\ SaveModelLoad({"u2"}, RealUsers)
    \/ SaveModelReadPrev
    \/ SaveModelPreSave
    \/ SaveModelWrite
    \/ SaveModelWriteRaises

SpecAtomic == Init /\ [][NextAtomic]_vars

\* The bulk attending action with every kind of posted target, on a user
\* table that may lose the placeholder or a real user.
NextReject ==
    \/ AddPatient(Patients, Users)
    \/ BulkSetOrClearAttending({"u1"}, Posted)
    \/ DeleteUser({TBA, "u2"})

SpecReject == Init /\ [][NextReject]_vars

\* the hours of a day, and two days of instants
Hours == 0 .. (HoursPerDay - 1)
QuietClock == 0 .. (HoursPerDay + QUIET_END_HOUR)

\* the tables empty, the two quiet-hours settings any hour of the day
InitQuiet ==
    /\ now = 0
    /\ patient = [p \in Patients |-> NoRow]
    /\ audit = <<>>
    /\ notifs = {}
    /\ nextNid = 1
    /\ children = [p \in Patients |-> 0]
    /\ req = [by \in Actors |-> IdleReq]
    /\ resp = NoMsg
    /\ users = Users
    /\ watches = {}
    /\ quiet \in [start : Hours, end : Hours]
    /\ wreq = [s \in Sessions |-> IdleWatch]
    /\ sweep = IdleSweep

\* _is_quiet_hours(timezone.now()) evaluated, its result kept in resp
IsQuietHours ==
    /\ resp' = Msg("_is_quiet_hours",
                   IF _is_quiet_hours(now) THEN "quiet" ELSE "open", 0)
    /\ UNCHANGED <<now, patient, audit, notifs, nextNid, children, req,
                   users, watches, quiet, wreq, sweep>>

\* _next_visible_time(timezone.now()) evaluated, its result kept in resp
NextVisibleTime ==
    /\ resp' = Msg("_next_visible_time", "none", _next_visible_time(now))
    /\ UNCHANGED <<now, patient, audit, notifs, nextNid, children, req,
                   users, watches, quiet, wreq, sweep>>

\* The quiet-hours test and the delivery time at every hour of two days
\* under every setting.
NextQuiet ==
    \/ Tick(QuietClock)
    \/ IsQuietHours
    \/ NextVisibleTime

SpecQuiet == InitQuiet /\ [][NextQuiet]_vars

\* Notifications created for two users, due now or at the next hour, read,
\* unread and acknowledged through the views.
NextNotify ==
    \/ Tick({QUIET_START_HOUR})
    \/ AddNotification(RealUsers, {QUIET_START_HOUR})
    \/ NotificationMarkRead(Actors)
    \/ NotificationMarkUnread(Actors)
    \/ NotificationAck(Actors)
    \/ NotificationsMarkAllRead(Actors)

SpecNotify == Init /\ [][NextNotify]_vars

\* The same notifications queried by the badge, status, list and feed.
NextQuery ==
    \/ Tick({QUIET_START_HOUR})
    \/ AddNotification(RealUsers, {QUIET_START_HOUR})
    \/ NotificationsMarkAllRead({"u1"})
    \/ NotificationStatus(Actors)
    \/ NotificationsList(Actors)
    \/ NotificationsBadge(Actors)
    \/ NotificationsFeed(Actors)

SpecQuery == Init /\ [][NextQuery]_vars

\* The same requests with a client of u1 that keeps polling the feed: its
\* timer fires again after every answer, so a poll is never postponed forever.
SpecPoll == Init /\ [][NextQuery]_vars /\ WF_vars(NotificationsFeed({"u1"}))

\* _ensure_active_watch called for any user, the placeholder and no user,
\* on a patient whose watches the users toggle.
NextEnsure ==
    \/ Tick({QUIET_START_HOUR})
    \/ AddPatient({"p1"}, Users)
    \/ ToggleWatch(Actors)
    \/ EnsureActiveWatch(Users \cup {NoUser}, {"p1"})

SpecEnsure == Init /\ [][NextEnsure]_vars

\* One user's add, remove and toggle requests on two patients, served one
\* after another.
NextManualWatch ==
    \/ Tick({QUIET_START_HOUR})
    \/ AddPatient(Patients, {TBA})
    \/ AddToMyWatchlist({"u1"}, Patients)
    \/ RemoveFromMyWatchlist({"u1"}, Patients)
    \/ ToggleWatch({"u1"})

SpecManualWatch == Init /\ [][NextManualWatch]_vars

\* Reassignments of two patients whose requests take time, from the hour
\* before quiet hours into the next morning.
StampClock == StartClock \cup {QUIET_START_HOUR, HoursPerDay + QUIET_END_HOUR}

NextStamp ==
    \/ Tick(StampClock)
    \/ AddPatient(Patients, Users)
    \/ BulkSetAttendingClock({"u1"}, Patients, RealUsers, StampClock)

SpecStamp == Init /\ [][NextStamp]_vars

\* One user's add, toggle and remove requests on one patient, two of them
\* in flight at a time, while the patient is created and reassigned.
NextWatchRace ==
    \/ Tick({QUIET_START_HOUR})
    \/ AddPatient({"p1"}, Users)
    \/ BulkSetOrClearAttending({"u2"}, {"u1", NoUser})
    \/ WatchLoad({"u1"}, {"p1"})
    \/ WatchWrite
    \/ RemoveFromMyWatchlist({"u1"}, {"p1"})

SpecWatchRace == Init /\ [][NextWatchRace]_vars

\* One patient created and reassigned (add form, change form, bulk action,
\* one request at a time) while users toggle their watches.
NextWatch ==
    \/ Idle /\ Tick({QUIET_START_HOUR})
    \/ Idle /\ AddPatient({"p1"}, Users)
    \/ Idle /\ BulkSetOrClearAttending({"u1"}, RealUsers \cup {NoUser})
    \/ Idle /\ SaveModelLoad({"u2"}, RealUsers)
    \/ SaveModelReadPrev
    \/ SaveModelPreSave
    \/ SaveModelWrite
    \/ Idle /\ ToggleWatch(Actors)

SpecWatch == Init /\ [][NextWatch]_vars

(***************************************************************************)
(* Properties                                                              *)
(***************************************************************************)
NotifsOf(ns, p) == {n \in ns : n.patient = p}
AssignmentOf(ns, p) == {n \in ns : n.kind = KindAssignment /\ n.patient = p}

\* the step just taken served a bulk attending request that went through
BulkDone ==
    resp.op = "bulk_set_or_clear_attending" /\ resp.level = "success"

\* C1: a bulk set/clear leaves every selected patient that already has the
\* requested attending unchanged, with no new audit row and no new
\* notification, and reports the number of selected patients whose attending
\* differed from the target before the request.
C1_ReassignIdempotent ==
    [][BulkDone' =>
        /\ \A p \in resp'.sel :
             patient[p].attending = resp'.target =>
                /\ patient'[p] = patient[p]
                /\ AuditOf(audit', p) = AuditOf(audit, p)
                /\ NotifsOf(notifs', p) = NotifsOf(notifs, p)
        /\ resp'.count =
             Cardinality({p \in resp'.sel :
                            patient[p].attending # resp'.target})]_vars

\* a bulk request over two patients of which one already had the target
C1_Witness ==
    /\ BulkDone
    /\ Cardinality(resp.sel) = 2
    /\ resp.count = 1
    /\ resp.target \in RealUsers

\* C2: for every selected patient whose attending differs from the target, a
\* bulk set/clear writes the target (and no other column) and appends exactly
\* one audit row for the patient: ATTENDING_CHANGED, old = the attending held
\* before the request, new = the target, changed_by = the acting user.
C2_ReassignAudited ==
    [][BulkDone' =>
        \A p \in resp'.sel :
            patient[p].attending # resp'.target =>
                /\ patient'[p] = [patient[p] EXCEPT !.attending = resp'.target]
                /\ AuditOf(audit', p) =
                     Append(AuditOf(audit, p),
                            AuditRow(p, resp'.actor, patient[p].attending,
                                     resp'.target, now))]_vars

\* a clear to the placeholder that changed a patient assigned earlier
C2_Witness ==
    /\ BulkDone
    /\ resp.target = TBA
    /\ resp.count >= 1
    /\ Len(audit) >= 2
    /\ audit[Len(audit)].changed_by = resp.actor

\* C3: when reassignments of one patient by two actors overlap, every write
\* that changes the attending produces exactly one audit row, from the value
\* replaced to the value written, and at most one notification; a write that
\* changes nothing produces neither.
C3_ConcurrentReassign ==
    [][\A p \in Live(patient) \cap Live(patient') :
        IF patient'[p].attending # patient[p].attending
        THEN /\ AuditOf(audit', p) =
                  Append(AuditOf(audit, p),
                         [AuditOf(audit', p)[Len(AuditOf(audit', p))] EXCEPT
                             !.old_attending = patient[p].attending,
                             !.new_attending = patient'[p].attending])
             /\ nextNid' <= nextNid + 1
        ELSE /\ AuditOf(audit', p) = AuditOf(audit, p)
             /\ NotifsOf(notifs', p) = NotifsOf(notifs, p)]_vars

\* two instants lie in the same quiet-hours window
InSameWindow(t1, t2) ==
    /\ _is_quiet_hours(t1) /\ _is_quiet_hours(t2)
    /\ _next_visible_time(t1) = _next_visible_time(t2)

\* the last two audit rows of p record reassignments to real users made in
\* the quiet-hours window that is still open
ReassignedTwiceInWindow(p) ==
    LET au == AuditOf(audit, p)
        n == Len(au)
    IN  /\ p \in Live(patient)
        /\ n >= 2
        /\ \A i \in {n - 1, n} :
              /\ au[i].new_attending \in RealUsers
              /\ InSameWindow(au[i].created_at, now)

\* C4 as stated: after two reassignments of a patient to real users inside one
\* quiet-hours window, exactly one ASSIGNMENT notification exists for the
\* patient, addressed to the final attending.
C4_OneAssignmentNotification ==
    \A p \in Patients :
        ReassignedTwiceInWindow(p) =>
            /\ Cardinality(AssignmentOf(notifs, p)) = 1
            /\ \A n \in AssignmentOf(notifs, p) :
                  n.recipient = patient[p].attending

\* C4 amended: after two successive reassignments of a patient to real users
\* inside one quiet-hours window, exactly one pending ASSIGNMENT notification
\* exists for the patient, addressed to the final attending; every other
\* ASSIGNMENT notification of the patient was created before the window.
C4_OnePendingNotification ==
    \A p \in Patients :
        ReassignedTwiceInWindow(p) =>
            LET pend == PendingAssignment(notifs, p, now)
            IN  /\ Cardinality(pend) = 1
                /\ \A n \in pend : n.recipient = patient[p].attending
                /\ \A n \in AssignmentOf(notifs, p) \ pend :
                      ~InSameWindow(n.created_at, now)

\* a patient reassigned twice in the open window that also keeps an
\* assignment notification delivered before the window
C4_Witness ==
    \E p \in Patients :
        /\ ReassignedTwiceInWindow(p)
        /\ AssignmentOf(notifs, p) # PendingAssignment(notifs, p, now)

\* C5: in every reachable state, under any interleaving of reassignments and
\* patient edits, each patient has at most one pending ASSIGNMENT notification.
C5_AtMostOnePending ==
    \A p \in Patients : Cardinality(PendingAssignment(notifs, p, now)) <= 1

\* a pending notification that replaced a cancelled one
C5_Witness ==
    \E p \in Patients :
        \E n \in PendingAssignment(notifs, p, now) :
            /\ n.id > 1
            /\ \A m \in notifs : m.id # n.id - 1

\* C6: the audit trail is append-only: every audit row that exists before a
\* step exists after it, with all fields unchanged.
C6_AuditAppendOnly ==
    [][\A i \in 1..Len(audit) :
          i <= Len(audit') /\ audit'[i] = audit[i]]_vars

\* C7: no step changes the attending, the audit rows, the notifications or the
\* child records of a patient that is read-only (Discharged or Archived).
C7_ReadOnlyRejected ==
    [][\A p \in Live(patient) :
          is_read_only(patient[p]) =>
             /\ p \in Live(patient')
             /\ patient'[p].attending = patient[p].attending
             /\ AuditOf(audit', p) = AuditOf(audit, p)
             /\ NotifsOf(notifs', p) = NotifsOf(notifs, p)
             /\ children'[p] = children[p]]_vars

\* C8: a delete request for a patient that is not Active is denied for every
\* requesting user and changes nothing; only an Active patient is ever removed.
C8_DeleteOnlyActive ==
    [][/\ \A p \in Live(patient) \ Live(patient') : patient[p].status = ACTIVE
       /\ \A p \in Live(patient) :
            (resp'.op = "delete" /\ resp'.sel = {p}
                                 /\ is_read_only(patient[p])) =>
                /\ resp'.level = "denied"
                /\ UNCHANGED <<patient, audit, notifs, children>>]_vars

\* a user holding the delete permission was denied on a read-only patient
C8_Witness ==
    /\ resp.op = "delete" /\ resp.level = "denied"
    /\ resp.actor \in DeletePerm
    /\ \E p \in resp.sel : p \in Live(patient) /\ is_read_only(patient[p])

\* C9: once discharged_at is set, a later discharge of the patient (model
\* helper or admin action) leaves it at the value of the first discharge.
C9_DischargeKeepsTimestamp ==
    [][\A p \in Live(patient) \cap Live(patient') :
          (patient[p].discharged_at # NoTime
              /\ patient'[p].discharged_at # NoTime) =>
                patient'[p].discharged_at = patient[p].discharged_at]_vars

\* C10: once archived_at is non-null, a later archive of the patient (model
\* helper or admin action) leaves it unchanged.
C10_ArchiveKeepsTimestamp ==
    [][\A p \in Live(patient) \cap Live(patient') :
          (patient[p].archived_at # NoTime
              /\ patient'[p].archived_at # NoTime) =>
                patient'[p].archived_at = patient[p].archived_at]_vars

\* C11: for every patient, discharged_at is non-null exactly when the status
\* is Discharged or Archived.
C11_DischargedAtIffLeft ==
    \A p \in Live(patient) :
        (patient[p].discharged_at # NoTime)
            <=> (patient[p].status \in {DISCHARGED, ARCHIVED})

\* C12: for every patient, archived_at is non-null exactly when the status is
\* Archived.
C12_ArchivedAtIffArchived ==
    \A p \in Live(patient) :
        (patient[p].archived_at # NoTime) <=> (patient[p].status = ARCHIVED)

\* C13: mark_active is enabled on every non-empty selection of patients,
\* whatever their status; it succeeds, leaves each selected patient Active
\* with discharged_at and archived_at null and every other field as it was,
\* and changes nothing else.
C13_MarkActive ==
    /\ [](\A S \in SUBSET Live(patient) : S # {} => ENABLED mark_active(S))
    /\ [][resp'.op = "mark_active" =>
            /\ resp'.level = "success"
            /\ \A p \in resp'.sel :
                 patient'[p] = [patient[p] EXCEPT !.status = ACTIVE,
                                                  !.discharged_at = NoTime,
                                                  !.archived_at = NoTime]
            /\ \A p \in Patients \ resp'.sel : patient'[p] = patient[p]
            /\ UNCHANGED <<audit, notifs, children, watches, users>>]_vars

\* mark_active served on two patients, now both Active without timestamps
C13_Witness ==
    /\ resp.op = "mark_active"
    /\ Cardinality(resp.sel) = 2
    /\ \A p \in resp.sel : patient[p].status = ACTIVE

\* the rule of the spec: Discharged, and discharged at least the grace period
\* before t
auto_archive_eligible(row, t) ==
    /\ row.life = "row"
    /\ row.status = DISCHARGED
    /\ row.discharged_at # NoTime
    /\ t - row.discharged_at >= PATIENT_DISCHARGE_GRACE_DAYS * HoursPerDay

\* C14: a run of the sweep selects (and so changes) a patient exactly when the
\* patient is Discharged with discharged_at <= now - grace period; Active and
\* Archived patients are never selected.
C14_SweepSelection ==
    [][resp'.op = "auto_archive_patients" =>
          \A p \in Patients :
              (patient'[p] # patient[p])
                  <=> auto_archive_eligible(patient[p], now)]_vars

\* a run that archived a patient discharged exactly one grace period ago and
\* left a patient discharged one day less ago
C14_Witness ==
    /\ resp.op = "auto_archive_patients"
    /\ \E p, q \in Live(patient) :
          /\ patient[p].status = ARCHIVED /\ patient[p].archived_at = now
          /\ now - patient[p].discharged_at
                = PATIENT_DISCHARGE_GRACE_DAYS * HoursPerDay
          /\ patient[q].status = DISCHARGED
          /\ now - patient[q].discharged_at
                = (PATIENT_DISCHARGE_GRACE_DAYS - 1) * HoursPerDay

\* C15: a run of the sweep leaves every eligible patient Archived with
\* discharged_at and attending as they were, leaves every other patient and
\* every other table unchanged, succeeds, and reports the number of patients
\* it archived (zero when none is eligible).
C15_SweepEffect ==
    [][resp'.op = "auto_archive_patients" =>
          /\ \A p \in Patients :
               IF auto_archive_eligible(patient[p], now)
               THEN /\ patient'[p].status = ARCHIVED
                    /\ patient'[p].discharged_at = patient[p].discharged_at
                    /\ patient'[p].attending = patient[p].attending
                    /\ patient'[p].life = patient[p].life
               ELSE patient'[p] = patient[p]
          /\ resp'.level = "success"
          /\ resp'.count =
               Cardinality({p \in Patients :
                              patient[p].status # ARCHIVED
                                  /\ patient'[p].status = ARCHIVED})
          /\ UNCHANGED <<audit, notifs, children, watches, users>>]_vars

\* a run that archived both patients of the census
C15_Witness ==
    /\ resp.op = "auto_archive_patients"
    /\ resp.count = 2
    /\ \A p \in Patients : patient[p].status = ARCHIVED
                             /\ patient[p].archived_at = now

\* C16: a step that moves a patient's attending to the placeholder writes the
\* attending, appends the audit row of the change (old = the attending
\* replaced, new = placeholder) and creates or deletes no notification; no
\* notification is ever addressed to the placeholder.
C16_PlaceholderNeverNotified ==
    [][/\ \A n \in notifs' : n.recipient # TBA
       /\ \A p \in Live(patient) \cap Live(patient') :
            (patient[p].attending # TBA /\ patient'[p].attending = TBA) =>
                /\ notifs' = notifs
                /\ nextNid' = nextNid
                /\ Len(AuditOf(audit', p)) = Len(AuditOf(audit, p)) + 1
                /\ LET a == AuditOf(audit', p)[Len(AuditOf(audit', p))]
                   IN  /\ a.event = ATTENDING_CHANGED
                       /\ a.old_attending = patient[p].attending
                       /\ a.new_attending = TBA]_vars

\* a patient cleared to the placeholder while a notification to the attending
\* it had before is still pending
C16_Witness ==
    \E p \in Live(patient) :
        /\ patient[p].attending = TBA
        /\ Len(AuditOf(audit, p)) >= 2
        /\ AuditOf(audit, p)[Len(AuditOf(audit, p))].new_attending = TBA
        /\ PendingAssignment(notifs, p, now) # {}

\* C17: after a step that creates a patient with a real attending u, or that
\* changes a patient's attending to a real user u, an active watch
\* (archived_at null) of u on the patient exists.
C17_AttendingWatches ==
    [][\A p \in Live(patient') :
          (/\ patient'[p].attending \in RealUsers
           /\ (p \in Live(patient) =>
                  patient'[p].attending # patient[p].attending)) =>
              \E w \in WatchesOf(watches', patient'[p].attending, p) :
                  w.archived_at = NoTime]_vars

\* C18: a reassignment request (bulk action or change form) that is cut short
\* by an exception leaves no attending update, audit row, notification
\* deletion or creation, or watch change behind; a request that completes
\* commits all of its writes in one step.
C18_AllOrNothing ==
    [][resp'.level = "raised" =>
          UNCHANGED <<patient, audit, notifs, watches, children>>]_vars

\* a bulk request that raised in its second iteration, after it had saved
\* both patients
C18_Witness ==
    /\ resp.op = "bulk_set_or_clear_attending"
    /\ resp.level = "raised"
    /\ resp.count = 2

\* C19: a bulk attending request is rejected with an error whenever the
\* placeholder user is missing, whatever it asks for, and whenever the posted
\* target id matches no user; it is rejected with a warning when neither a
\* target nor the clear flag is given; a rejected request changes no patient,
\* audit row, notification or watch, and only a request that finds the
\* placeholder and its target goes through.
C19_RejectedChangesNothing ==
    [][resp'.op = "bulk_set_or_clear_attending" =>
          /\ resp'.level \in {"success", "error", "warning"}
          /\ TBA \notin users => resp'.level = "error"
          /\ resp'.level = "success" => resp'.target \in users
          /\ resp'.level = "error" =>
                \/ TBA \notin users
                \/ (resp'.target # NoUser /\ resp'.target \notin users)
          /\ resp'.level = "warning" => resp'.target = NoUser
          /\ resp'.level \in {"error", "warning"} =>
                UNCHANGED <<patient, audit, notifs, nextNid, watches,
                            children, users>>]_vars

\* a request naming an existing real user rejected because the placeholder
\* is missing
C19_Witness ==
    /\ resp.op = "bulk_set_or_clear_attending"
    /\ resp.level = "error"
    /\ TBA \notin users
    /\ resp.target \in users
    /\ Live(patient) # {}

\* C20: for settings start and end in 0..23 and local hour h, the quiet-hours
\* test is false at every h when start = end, equals start <= h < end when
\* start < end, and equals (h >= start or h < end) when start > end; with
\* start 16 and end 7, hours 20, 6 and 16 are quiet and hour 7 is not.
C20_QuietHours ==
    resp.op = "_is_quiet_hours" =>
        LET h == LocalHour(now)
            start == quiet.start
            end == quiet.end
            said == resp.level = "quiet"
        IN  /\ resp.level \in {"quiet", "open"}
            /\ start = end => ~said
            /\ start < end => (said <=> (start <= h /\ h < end))
            /\ start > end => (said <=> (h >= start \/ h < end))
            /\ (start = 16 /\ end = 7) =>
                  /\ h \in {20, 6, 16} => said
                  /\ h = 7 => ~said

\* the default overnight window at its end hour on the second day: not quiet
C20_Witness ==
    /\ resp.op = "_is_quiet_hours"
    /\ quiet.start = 16
    /\ quiet.end = 7
    /\ LocalDate(now) = 1
    /\ LocalHour(now) = 7
    /\ resp.level = "open"

\* C21: the delivery time computed at an instant outside quiet hours is that
\* instant; inside quiet hours it is the end hour of today when the local
\* hour is below the end hour and of tomorrow otherwise.  Under every
\* setting and at every instant it is not before the instant, it is the first
\* instant after it whose local hour is the end hour when the instant is
\* quiet, and it is never itself inside quiet hours.
C21_NextVisibleTime ==
    resp.op = "_next_visible_time" =>
        LET r == resp.count
            h == LocalHour(now)
            end == quiet.end
        IN  /\ ~_is_quiet_hours(now) => r = now
            /\ _is_quiet_hours(now) =>
                  /\ h < end => r = LocalDate(now) * HoursPerDay + end
                  /\ h >= end => r = (LocalDate(now) + 1) * HoursPerDay + end
                  /\ r > now
                  /\ LocalHour(r) = end
                  /\ \A t \in (now + 1) .. (r - 1) : LocalHour(t) # end
            /\ r >= now
            /\ ~_is_quiet_hours(r)
            /\ (quiet.start = 16 /\ end = 7 /\ now = 20) => r = 31
            /\ (quiet.start = 16 /\ end = 7 /\ now = 8) => r = 8

\* a request in the small hours of the second day, inside the default
\* window, deferred to 7 of the same day
C21_Witness ==
    /\ resp.op = "_next_visible_time"
    /\ quiet.start = 16
    /\ quiet.end = 7
    /\ LocalDate(now) = 1
    /\ LocalHour(now) = 3
    /\ resp.count = HoursPerDay + 7

\* C22: the badge, status and feed queries answer every user at every time;
\* the unread count they return is the number of that user's notifications
\* with visible_at <= now and no read_at, the unacknowledged count the number
\* of that user's visible notifications not acknowledged (none is
\* acknowledged in these behaviours), and the list shows only that user's
\* visible notifications.
C22_BadgeCounts ==
    LET mine == VisibleTo(notifs, resp.actor, now)
        unread == {n \in mine : n.read_at = NoTime}
    IN  /\ resp.op \in {"notification_status", "notifications_badge"} =>
              /\ resp.level = "ok"
              /\ resp.count = Cardinality(unread)
        /\ resp.op = "notifications_feed" =>
              /\ resp.level = "ok"
              /\ resp.count = Cardinality(mine)
        /\ resp.op = "notifications_list" =>
              /\ resp.level = "ok"
              /\ resp.sel \subseteq {n.id : n \in mine}

\* the notifications a request by user by for id pk is about
OwnNotification(ns, pk, by) == {n \in ns : n.id = pk /\ n.recipient = by}

\* C23: an acknowledge request by the recipient puts the notification in the
\* acknowledged state, and the answer carries the time of the first
\* acknowledgement whatever mark-read, mark-unread, acknowledge or
\* mark-all-read requests came in between; read state is reversible: a
\* mark-unread request on a read notification returns it to unread.
C23_AckOneWay ==
    [][/\ (/\ resp'.op = "notification_ack"
           /\ OwnNotification(notifs, resp'.count, resp'.actor) # {})
          => resp'.level = "ok"
       /\ resp'.op = "notification_mark_unread" =>
             \A n \in OwnNotification(notifs, resp'.count, resp'.actor) :
                 [n EXCEPT !.read_at = NoTime] \in notifs']_vars

C25_IndependentAxes ==
    [][/\ resp'.op = "notification_ack" =>
             /\ notifs' = notifs
             /\ \A n \in OwnNotification(notifs, resp'.count, resp'.actor) :
                   n.read_at = NoTime => resp'.level = "ok"
       /\ resp'.op \in {"notification_mark_read", "notification_mark_unread",
                        "notifications_mark_all_read"} =>
             /\ {[n EXCEPT !.read_at = NoTime] : n \in notifs'}
                  = {[n EXCEPT !.read_at = NoTime] : n \in notifs}
             /\ Cardinality(notifs') = Cardinality(notifs)]_vars

\* C26: a mark-read, mark-unread or acknowledge request for an id that no
\* notification has, or whose notification belongs to another user, is
\* answered not-found and changes no notification.
C26_NotFoundNoChange ==
    [][(/\ resp'.op \in {"notification_mark_read", "notification_mark_unread",
                         "notification_ack"}
        /\ ~\E n \in notifs : n.id = resp'.count /\ n.recipient = resp'.actor)
       => /\ resp'.level = "not_found"
          /\ notifs' = notifs]_vars

\* a mark-read request for another user's unread notification, refused
C26_Witness ==
    /\ resp.op = "notification_mark_read"
    /\ resp.level = "not_found"
    /\ \E n \in notifs : /\ n.id = resp.count
                         /\ n.recipient # resp.actor
                         /\ n.read_at = NoTime
                         /\ n.visible_at <= now

\* C27: mark-all-read by user u stamps read_at with the time of the request
\* on exactly u's notifications with visible_at <= now and no read_at, and
\* leaves every other notification as it is: those of other users, u's
\* pending ones, and those already read.
C27_MarkAllRead ==
    [][resp'.op = "notifications_mark_all_read" =>
          notifs' = {IF /\ n.recipient = resp'.actor
                        /\ n.visible_at <= now
                        /\ n.read_at = NoTime
                     THEN [n EXCEPT !.read_at = now] ELSE n : n \in notifs}]_vars

\* after mark-all-read by u: one of u's notifications stamped now, one of u's
\* still pending and unread, one of another user visible and unread
C27_Witness ==
    /\ resp.op = "notifications_mark_all_read"
    /\ \E n \in notifs : n.recipient = resp.actor /\ n.read_at = now
    /\ \E n \in notifs : /\ n.recipient = resp.actor
                         /\ n.visible_at > now
                         /\ n.read_at = NoTime
    /\ \E n \in notifs : /\ n.recipient # resp.actor
                         /\ n.visible_at <= now
                         /\ n.read_at = NoTime

\* the ids of the user's visible notifications above the cursor, cut to the
\* page size from the highest id down
FeedPage(by, since_id) ==
    LET q == {n.id : n \in {m \in VisibleTo(notifs, by, now) : m.id > since_id}}
    IN  {i \in q : Cardinality({j \in q : j > i}) < FEED_PAGE_SIZE}

\* C28: the feed for user u with cursor since_id answers with u's
\* notifications that are visible, not acknowledged (none is acknowledged in
\* these behaviours) and have an id above since_id, the 20 highest ids when
\* more qualify.
C28_Feed ==
    [][\A by \in Actors, since_id \in 0 .. MaxNotif :
          notifications_feed(by, since_id) =>
              /\ resp'.level = "ok"
              /\ resp'.sel = FeedPage(by, since_id)]_vars

\* C29: in every reachable state, whatever the order and overlap of add,
\* remove and toggle requests, patient creations and attending changes, each
\* (user, patient) pair has at most one watch with archived_at null.
C29_OneActiveWatch ==
    \A u \in Users, p \in Patients :
        Cardinality({w \in WatchesOf(watches, u, p) : w.archived_at = NoTime})
            <= 1

\* a second row for the pair refused by the database while the first is
\* active
C29_Witness ==
    /\ resp.level = "raised"
    /\ resp.op \in WatchOps
    /\ \E w \in watches : w.user = resp.actor /\ w.archived_at = NoTime

\* the rows ws with archived_at cleared
Reactivated(ws) == {[w EXCEPT !.archived_at = NoTime] : w \in ws}

\* C30: a removal keeps the pair's row and stamps its archived_at; when the
\* pair has only an archived row, a manual re-add by the user and an
\* attending change that makes the user the patient's attending both leave
\* that same row with archived_at cleared, and no step takes the pair's rows
\* beyond one.
C30_ReaddReactivates ==
    [][\A u \in RealUsers, p \in Live(patient) \cap Live(patient') :
          LET before == WatchesOf(watches, u, p)
              after == WatchesOf(watches', u, p)
              archived == before # {} /\ \A w \in before : w.archived_at # NoTime
          IN  /\ before # {} => Cardinality(after) = Cardinality(before)
              /\ before = {} => Cardinality(after) <= 1
              /\ {w.id : w \in before} \subseteq {w.id : w \in after}
              /\ (archived /\ resp'.op = "toggle_watch" /\ resp'.actor = u
                    /\ resp'.sel = {p}) => after = Reactivated(before)
              /\ (archived /\ patient'[p].attending = u
                    /\ patient[p].attending # u) =>
                    after = Reactivated(before)]_vars

\* the user's active watches among ws
ActiveOf(ws, u) == {w \in ws : w.user = u /\ w.archived_at = NoTime}

\* C31: a manual add over the selected patients S reports as created the
\* number of them the user had no watch on, as reactivated the number with
\* only an archived watch and as already active the number with an active
\* watch, the three adding up to |S|, and leaves an active watch of the user
\* on every patient of S; a manual remove reports the number of active
\* watches it archived.
C31_ManualCounts ==
    [][/\ (resp'.op = "add_to_my_watchlist" /\ resp'.level = "success") =>
             LET S == resp'.sel
                 u == resp'.actor
                 none == {p \in S : WatchesOf(watches, u, p) = {}}
                 act == {p \in S : \E w \in ActiveOf(watches, u) : w.patient = p}
                 arch == S \ (none \cup act)
             IN  /\ resp'.count = Cardinality(none)
                 /\ resp'.reactivated = Cardinality(arch)
                 /\ resp'.skipped = Cardinality(act)
                 /\ resp'.count + resp'.reactivated + resp'.skipped
                      = Cardinality(S)
                 /\ \A p \in S : \E w \in ActiveOf(watches', u) : w.patient = p
       /\ resp'.op = "remove_from_my_watchlist" =>
             resp'.count =
                Cardinality({w \in ActiveOf(watches, resp'.actor) :
                               \E v \in watches' : /\ v.id = w.id
                                                   /\ v.archived_at # NoTime})]_vars

\* an add over two patients that created one watch and reactivated the other
C31_Witness ==
    /\ resp.op = "add_to_my_watchlist"
    /\ resp.level = "success"
    /\ resp.count = 1
    /\ resp.reactivated = 1
    /\ Cardinality(ActiveOf(watches, resp.actor)) = 2

\* C32: a step that reassigns a patient to a real user has written the audit
\* row of the change, then pushed the assignment notification (created no
\* earlier than the audit row), then ensured an active watch of the new
\* attending on the patient.
C32_AuditNotifyWatch ==
    [][\A p \in Live(patient) \cap Live(patient') :
          (/\ patient'[p].attending # patient[p].attending
           /\ patient'[p].attending \in RealUsers) =>
              LET u == patient'[p].attending
                  au == AuditOf(audit', p)
              IN  /\ Len(au) = Len(AuditOf(audit, p)) + 1
                  /\ au[Len(au)].new_attending = u
                  /\ \E n \in AssignmentOf(notifs', p) \ notifs :
                        /\ n.recipient = u
                        /\ n.created_at >= au[Len(au)].created_at
                  /\ \E w \in WatchesOf(watches', u, p) :
                        w.archived_at = NoTime]_vars

\* C33: a call of ensure_active_watch(user, patient) changes nothing when
\* the user is the placeholder, changes nothing when the pair has an active
\* watch, clears archived_at on the pair's row and creates none when the pair
\* has only an archived watch, and otherwise adds exactly one active watch
\* for the pair; no row it leaves has the placeholder as its user.
C33_EnsureActiveWatch ==
    [][resp'.op = "_ensure_active_watch" =>
          LET u == resp'.actor
              before == UNION {WatchesOf(watches, u, p) : p \in resp'.sel}
              added == watches' \ watches
          IN  /\ u = TBA => watches' = watches
              /\ (\E w \in before : w.archived_at = NoTime) =>
                    watches' = watches
              /\ (before # {} /\ \A w \in before : w.archived_at # NoTime) =>
                    /\ watches' = (watches \ before) \cup Reactivated(before)
                    /\ Cardinality(watches') = Cardinality(watches)
              /\ (before = {} /\ u \in RealUsers) =>
                    /\ Cardinality(added) = 1
                    /\ watches \subseteq watches'
                    /\ \A w \in added : /\ w.user = u
                                        /\ w.patient \in resp'.sel
                                        /\ w.archived_at = NoTime
              /\ \A w \in watches' : w.user # TBA]_vars

\* a call that found the pair's only watch archived and reactivated it
C33_Witness ==
    /\ resp.op = "_ensure_active_watch"
    /\ resp.level = "reactivate"
    /\ \E w \in watches : /\ w.user = resp.actor
                          /\ w.patient \in resp.sel
                          /\ w.archived_at = NoTime

\* C34: a step that changes a patient's attending from user A to another
\* user leaves every watch on that patient of a user other than the new
\* attending, A's among them, exactly as it was, active or archived, and
\* adds no watch for such a user.
C34_OldAttendingWatchKept ==
    [][\A p \in Live(patient) \cap Live(patient') :
          patient'[p].attending # patient[p].attending =>
              {w \in watches : w.patient = p /\ w.user # patient'[p].attending}
                = {w \in watches' :
                     w.patient = p /\ w.user # patient'[p].attending}]_vars

\* a bulk reassignment away from u1 to u2 while u1 has an active watch on
\* the patient
C34_Witness ==
    /\ BulkDone
    /\ resp.count = 1
    /\ resp.target = "u2"
    /\ Len(audit) > 0
    /\ audit[Len(audit)].old_attending = "u1"
    /\ \E w \in watches : /\ w.user = "u1"
                          /\ w.patient \in resp.sel
                          /\ w.archived_at = NoTime

\* C35: every notification row has visible_at >= created_at, the assignment
\* notifications pushed outside quiet hours included.
C35_VisibleNotBeforeCreated ==
    \A n \in notifs : n.visible_at >= n.created_at

\* C36: for every patient the audit rows in creation order form a chain:
\* each row's old_attending differs from its new_attending and equals the
\* new_attending of the row before it, and the newest row's new_attending is
\* the patient's current attending.
C36_AuditChain ==
    \A p \in Live(patient) :
        \A i \in 1..Len(AuditOf(audit, p)) :
            /\ AuditOf(audit, p)[i].old_attending
                 # AuditOf(audit, p)[i].new_attending
            /\ i > 1 => AuditOf(audit, p)[i].old_attending
                          = AuditOf(audit, p)[i - 1].new_attending
            /\ i = Len(AuditOf(audit, p)) =>
                   AuditOf(audit, p)[i].new_attending = patient[p].attending

\* C37: in every state each pending ASSIGNMENT notification (visible_at > now)
\* of a patient is addressed to the patient's current attending; none is
\* left once the patient has been cleared to the placeholder.
C37_PendingToCurrentAttending ==
    \A p \in Live(patient) :
        \A n \in PendingAssignment(notifs, p, now) :
            n.recipient = patient[p].attending

\* C38: u1's client polls the feed again and again; every notification of u1
\* that is visible (none is ever acknowledged in these behaviours) is
\* eventually among the items of an answer to one of its polls.
C38_FeedDelivers ==
    \A i \in 1..MaxNotif :
        (\E n \in notifs : /\ n.id = i
                           /\ n.recipient = "u1"
                           /\ n.visible_at <= now)
          ~> (/\ resp.op = "notifications_feed"
              /\ resp.actor = "u1"
              /\ resp.level = "ok"
              /\ i \in resp.sel)

\* C39: when lifecycle actions run between the two queries of the sweep, the
\* count the sweep reports is the number of patients its UPDATE moved to
\* Archived, and every patient the UPDATE changes is Discharged when it is
\* updated.
C39_SweepRace ==
    [][sweep.pc = "counted" /\ sweep'.pc = "idle" =>
          /\ resp'.op = "auto_archive_patients"
          /\ resp'.count =
               Cardinality({p \in Patients : patient'[p] # patient[p]})
          /\ \A p \in Patients :
               patient'[p] # patient[p] =>
                   /\ patient[p].status = DISCHARGED
                   /\ patient'[p].status = ARCHIVED]_vars
====
